---- MODULE Spec2Model ----
(***************************************************************************)
(* Model of migrate_data_between_servers.py: the OdooClient wrapper over   *)
(* the XML-RPC endpoints (authenticate, fields_get, search_read, create)   *)
(* and the two workflows compare_models_between_servers and                *)
(* migrate_data_between_servers.                                           *)
(*                                                                         *)
(* Python values are encoded as follows.                                   *)
(*   dict            a function from a set of keys to values               *)
(*   list of names   a set (the lists are dict keys or list(set(..)), so   *)
(*                   they hold no duplicates and no claim reads an order)  *)
(*   list of dicts   a sequence                                            *)
(*   Optional[x]     [none |-> BOOLEAN, val |-> x]                         *)
(*   an RPC reply    [fault |-> BOOLEAN, val |-> x]  (fault: the proxy     *)
(*                   call raised)                                          *)
(***************************************************************************)
EXTENDS Integers, Sequences, FiniteSets, TLC

\* ------------------------------------------------------------------ bounds
MaxRecords == 2      \* records held by the source server / passed to create
MaxRuns == 2         \* completed migrations the caller performs in a row

\* ------------------------------------------------------------ environment
Servers == {1, 2}                       \* server1 (source), server2 (destination)
FieldNames == {"name", "color", "partner_id"}
MigFieldNames == {"name", "partner_id"}
FieldTypes == {"char", "many2one", "one2many", "many2many"}

\* every fields_get reply over the names N: a dict name -> type
Schemas(N) == UNION {[D -> FieldTypes] : D \in SUBSET N}

\* a source with a relational field and a destination lacking it, both with
\* two plain fields
SchemaA == [f \in FieldNames |-> IF f = "partner_id" THEN "many2one" ELSE "char"]
SchemaB == [f \in {"name", "color"} |-> "char"]
MigSchemas == Schemas(MigFieldNames) \cup {SchemaA, SchemaB}

\* the uid a server's common.authenticate gives for accepted credentials
ServerUid == [s \in Servers |-> s + 1]

EmptyRec == [k \in {} |-> 0]
NoneSet == [none |-> TRUE, val |-> {}]
SomeSet(x) == [none |-> FALSE, val |-> x]
NoneSeq == [none |-> TRUE, val |-> <<>>]
SomeSeq(x) == [none |-> FALSE, val |-> x]
Fault(v) == [fault |-> TRUE, val |-> v]   \* v: a filler of the reply's type
Reply(x) == [fault |-> FALSE, val |-> x]

VARIABLES
    schema,        \* schema[s]: the fields_get dict of the model on server s
    store,         \* store[s]: the records of the model on server s, by id
    fields,        \* the caller's `fields` argument of the migration
    domain,        \* the caller's `domain` argument of the migration
    budget,        \* how many migrations the caller lets return
    pc,            \* position in the running workflow
    client1,       \* migrate: client1.uid (0: not constructed)
    client2,       \* migrate: client2.uid (0: not constructed)
    cmp1,          \* comparator: client1.uid (0: not constructed)
    cmp2,          \* comparator: client2.uid (0: not constructed)
    fields1,       \* comparator: fields1
    req_fields,    \* get_data_from_model: the local `fields` after line 58
    server1_data,  \* migrate: server1_data
    common_fields, \* migrate: common_fields
    filtered_data, \* migrate: filtered_data
    created_ids,   \* create_data_on_model: created_ids
    idx,           \* create_data_on_model: position of the for loop
    result,        \* what the workflow returned (none: nothing returned)
    calls,         \* the remote calls of the running workflow, in order
    runs,          \* the migrations that returned, in order
    self_uid,      \* single client: self.uid (0: no client object)
    ret,           \* single client: the last method call and its outcome
    all_fields,    \* single client: what get_fields_from_model last returned
    cmp            \* comparator: cmp[<<a, b>>], the outcome for servers a, b

vars == <<schema, store, fields, domain, budget, pc, client1, client2, cmp1, cmp2,
          fields1, req_fields, server1_data, common_fields, filtered_data, created_ids,
          idx, result, calls, runs, self_uid, ret, all_fields, cmp>>

envVars == <<schema, fields, domain, budget>>
clientVars == <<self_uid, ret, all_fields, cmp>>
migVars == <<pc, client1, client2, cmp1, cmp2, fields1, req_fields, server1_data,
             common_fields, filtered_data, created_ids, idx, result, runs>>

\* --------------------------------------------------------- remote servers
\* common.authenticate: raises, or gives False (0), or the account's uid
AuthReplies(s) == {Fault(0), Reply(0), Reply(ServerUid[s])}

\* models.execute_kw(..., 'fields_get', [], {'attributes': ['type']})
FieldsGetReplies(s) == {Fault(EmptyRec), Reply(schema[s])}

Restrict(r, keys) == [k \in (keys \cap DOMAIN r) |-> r[k]]

\* a domain is a sequence of leaves <<field, value>> read as field = value
Matches(r, dom) ==
    \A i \in 1..Len(dom) : dom[i][1] \in DOMAIN r /\ r[dom[i][1]] = dom[i][2]

RECURSIVE SelectIdx(_, _, _)
SelectIdx(s, dom, i) ==
    IF i > Len(s) THEN <<>>
    ELSE (IF Matches(s[i], dom) THEN <<s[i]>> ELSE <<>>) \o SelectIdx(s, dom, i + 1)

\* models.execute_kw(..., 'search_read', [domain], {'fields': fields}):
\* raises on a transport error or a name the model does not have; else the
\* matching records, each with the requested fields (all fields when the
\* list is empty)
SearchReadReplies(s, dom, flds) ==
    {Fault(<<>>)} \cup
    IF flds \subseteq DOMAIN schema[s]
          /\ \A i \in 1..Len(dom) : dom[i][1] \in DOMAIN schema[s]
    THEN LET hits == SelectIdx(store[s], dom, 1)
             keep == IF flds = {} THEN DOMAIN schema[s] ELSE flds
         IN {Reply([i \in 1..Len(hits) |-> Restrict(hits[i], keep)])}
    ELSE {}

\* models.execute_kw(..., 'create', [record]): raises, or stores the record
\* and gives its new id
CreateRepliesAt(len) == {Fault(0), Reply(len + 1)}
CreateReplies(s) == CreateRepliesAt(Len(store[s]))

\* one remote call as the server saw it: the uid sent, the fields list sent
\* (search_read), the record sent (create), whether it went through, and
\* the id it gave (create)
Call(s, method, uid, flds, rec, ok, id) ==
    [srv |-> s, method |-> method, uid |-> uid, fields |-> flds, rec |-> rec,
     ok |-> ok, id |-> id]

\* ------------------------------------------------------------- OdooClient
\* authenticate (lines 21-30): the value returned, 0 standing for "raised"
authenticate(reply) ==
    IF reply.fault THEN 0
    ELSE IF reply.val = 0 THEN 0
    ELSE reply.val

\* __init__ (line 19): the uid the object holds, 0 when construction raised
OdooClient(reply) == authenticate(reply)

\* mutant: many2one left out of the default
DefaultExcludeTwo == {"many2many", "one2many"}

DefaultExcludeTypes == {"many2many", "one2many", "many2one"}

\* line 39: exclude_types or [...]
exclude_or_default(exclude_types) ==
    IF exclude_types.none \/ exclude_types.val = {} THEN DefaultExcludeTypes
    ELSE exclude_types.val

\* get_filtered_fields (line 43), on the fields_get dict
get_filtered_fields(fields_info, exclude_types) ==
    {k \in DOMAIN fields_info : fields_info[k] \notin exclude_or_default(exclude_types)}

\* get_fields_from_model (line 76), on the fields_get dict
get_fields_from_model(fields_info) == DOMAIN fields_info

\* mutant: the first list taken for the intersection
compare_field_lists_first(fields_list_1, fields_list_2) ==
    [unique_to_list_1 |-> fields_list_1 \ fields_list_2,
     unique_to_list_2 |-> fields_list_2 \ fields_list_1,
     common_fields |-> fields_list_1]

\* compare_field_lists (lines 88-94)
compare_field_lists(fields_list_1, fields_list_2) ==
    [unique_to_list_1 |-> fields_list_1 \ fields_list_2,
     unique_to_list_2 |-> fields_list_2 \ fields_list_1,
     common_fields |-> fields_list_1 \cap fields_list_2]

\* mutant: the record passed on whole
project_all(record, common) == record

\* line 155: {key: record[key] for key in common_fields if key in record}
project(record, common) ==
    [key \in {k \in common : k \in DOMAIN record} |-> record[key]]

\* mutant: records the destination already holds are left out
NotStored(r) == \A i \in 1..Len(store[2]) : store[2][i] # r
filter_data_dedup(data, common) ==
    SelectSeq([i \in 1..Len(data) |-> project(data[i], common)], NotStored)

\* mutant: records whose projection is empty are left out
NotEmpty(r) == r # EmptyRec
filter_data_skip_empty(data, common) ==
    SelectSeq([i \in 1..Len(data) |-> project(data[i], common)], NotEmpty)

\* line 155: filtered_data
filter_data(data, common) == [i \in 1..Len(data) |-> project(data[i], common)]

\* lines 103-104: if not data: return []
create_returns_early(data) == data = <<>>
\* mutant: a bare return
early_return_none == NoneSeq
early_return == SomeSeq(<<>>)

\* mutant: the except clause swallows the error
swallows(reply) == FALSE

\* lines 45-47 (and 63-65): the except clause logs and re-raises
reraises(reply) == reply.fault

\* line 57: domain or []
domain_or_default(dom) == IF dom.none \/ dom.val = <<>> THEN <<>> ELSE dom.val

\* line 58: whether `fields or ...` takes the right operand
fields_is_falsy(flds) == flds.none \/ flds.val = {}

\* lines 108-113: created_ids after one iteration of the loop
on_create_reply(ids, reply) ==
    IF reply.fault THEN ids ELSE Append(ids, reply.val)

\* mutant: a failed create call ends the loop with the error
after_create_abort(i, n, reply) ==
    IF reply.fault THEN "raised" ELSE IF i < n THEN "L109" ELSE "done"

\* lines 107-114: where control goes after iteration i of n
after_create(i, n, reply) == IF i < n THEN "L109" ELSE "done"

\* the destination's records after a create call with this reply
Created(s, rec, reply) ==
    IF reply.fault THEN store ELSE [store EXCEPT ![s] = Append(@, rec)]

\* the outcome of a method call on the single client
Ret(method, raised, arg, set, seq, n) ==
    [method |-> method, raised |-> raised, arg |-> arg, set |-> set,
     seq |-> seq, n |-> n]
NoCall == Ret("", FALSE, NoneSet, {}, <<>>, 0)

\* the outcome of compare_models_between_servers for a pair of servers
NoResult == [state |-> "none", val |-> compare_field_lists({}, {})]
Pairs == {<<1, 2>>, <<2, 1>>}
NoCmp == [p \in Pairs |-> NoResult]

\* --------------------------------------- migrate_data_between_servers
Locals0 ==
    /\ client1 = 0 /\ client2 = 0 /\ cmp1 = 0 /\ cmp2 = 0
    /\ fields1 = {} /\ req_fields = {} /\ server1_data = <<>>
    /\ common_fields = {} /\ filtered_data = <<>> /\ created_ids = <<>>
    /\ idx = 0 /\ result = NoneSeq /\ calls = <<>>

\* the caller invokes migrate_data_between_servers(server1, server2, model,
\* fields, domain)
M_Call ==
    /\ pc = "idle" /\ Len(runs) < budget
    /\ pc' = "L148"
    /\ UNCHANGED <<envVars, clientVars, store, client1, client2, cmp1, cmp2,
                   fields1, req_fields, server1_data, common_fields,
                   filtered_data, created_ids, idx, result, calls, runs>>

\* the call returned or raised; the frame is gone
M_Return ==
    /\ pc \in {"done", "raised"}
    /\ pc' = "idle"
    /\ client1' = 0 /\ client2' = 0 /\ cmp1' = 0 /\ cmp2' = 0
    /\ fields1' = {} /\ req_fields' = {} /\ server1_data' = <<>>
    /\ common_fields' = {} /\ filtered_data' = <<>> /\ created_ids' = <<>>
    /\ idx' = 0 /\ result' = NoneSeq /\ calls' = <<>>
    /\ UNCHANGED <<envVars, clientVars, store, runs>>

\* line 148: client1 = OdooClient(server1...)
M_L148 ==
    /\ pc = "L148"
    /\ \E reply \in AuthReplies(1) :
         LET uid == OdooClient(reply) IN
         /\ calls' = Append(calls, Call(1, "authenticate", 0, {}, EmptyRec, uid # 0, 0))
         /\ client1' = uid
         /\ pc' = IF uid = 0 THEN "raised"
                  ELSE IF fields_is_falsy(fields) THEN "L58" ELSE "L60"
         /\ req_fields' = IF fields_is_falsy(fields) THEN {} ELSE fields.val
    /\ UNCHANGED <<envVars, clientVars, store, client2, cmp1, cmp2, fields1,
                   server1_data, common_fields, filtered_data, created_ids,
                   idx, result, runs>>

\* lines 149, 58: fields = self.get_filtered_fields(model)
M_L58 ==
    /\ pc = "L58"
    /\ \E reply \in FieldsGetReplies(1) :
         /\ calls' = Append(calls, Call(1, "fields_get", client1, {}, EmptyRec, ~reply.fault, 0))
         /\ IF reraises(reply)
            THEN pc' = "raised" /\ UNCHANGED req_fields
            ELSE /\ req_fields' = get_filtered_fields(reply.val, NoneSet)
                 /\ pc' = "L60"
    /\ UNCHANGED <<envVars, clientVars, store, client1, client2, cmp1, cmp2,
                   fields1, server1_data, common_fields, filtered_data,
                   created_ids, idx, result, runs>>

\* lines 149, 60-62: server1_data = search_read(domain, fields)
M_L60 ==
    /\ pc = "L60"
    /\ \E reply \in SearchReadReplies(1, domain_or_default(domain), req_fields) :
         /\ calls' = Append(calls, Call(1, "search_read", client1, req_fields, EmptyRec, ~reply.fault, 0))
         /\ IF reraises(reply)
            THEN pc' = "raised" /\ UNCHANGED server1_data
            ELSE /\ server1_data' = reply.val
                 /\ pc' = "L151"
    /\ UNCHANGED <<envVars, clientVars, store, client1, client2, cmp1, cmp2,
                   fields1, req_fields, common_fields, filtered_data,
                   created_ids, idx, result, runs>>

\* line 151: client2 = OdooClient(server2...)
M_L151 ==
    /\ pc = "L151"
    /\ \E reply \in AuthReplies(2) :
         LET uid == OdooClient(reply) IN
         /\ calls' = Append(calls, Call(2, "authenticate", 0, {}, EmptyRec, uid # 0, 0))
         /\ client2' = uid
         /\ pc' = IF uid = 0 THEN "raised" ELSE "L125"
    /\ UNCHANGED <<envVars, clientVars, store, client1, cmp1, cmp2, fields1,
                   req_fields, server1_data, common_fields, filtered_data,
                   created_ids, idx, result, runs>>

\* lines 152, 125: the comparator's client1 = OdooClient(server1...)
M_L125 ==
    /\ pc = "L125"
    /\ \E reply \in AuthReplies(1) :
         LET uid == OdooClient(reply) IN
         /\ calls' = Append(calls, Call(1, "authenticate", 0, {}, EmptyRec, uid # 0, 0))
         /\ cmp1' = uid
         /\ pc' = IF uid = 0 THEN "raised" ELSE "L126"
    /\ UNCHANGED <<envVars, clientVars, store, client1, client2, cmp2, fields1,
                   req_fields, server1_data, common_fields, filtered_data,
                   created_ids, idx, result, runs>>

\* line 126: fields1 = client1.get_filtered_fields(model)
M_L126 ==
    /\ pc = "L126"
    /\ \E reply \in FieldsGetReplies(1) :
         /\ calls' = Append(calls, Call(1, "fields_get", cmp1, {}, EmptyRec, ~reply.fault, 0))
         /\ IF reraises(reply)
            THEN pc' = "raised" /\ UNCHANGED fields1
            ELSE /\ fields1' = get_filtered_fields(reply.val, NoneSet)
                 /\ pc' = "L128"
    /\ UNCHANGED <<envVars, clientVars, store, client1, client2, cmp1, cmp2,
                   req_fields, server1_data, common_fields, filtered_data,
                   created_ids, idx, result, runs>>

\* line 128: the comparator's client2 = OdooClient(server2...)
M_L128 ==
    /\ pc = "L128"
    /\ \E reply \in AuthReplies(2) :
         LET uid == OdooClient(reply) IN
         /\ calls' = Append(calls, Call(2, "authenticate", 0, {}, EmptyRec, uid # 0, 0))
         /\ cmp2' = uid
         /\ pc' = IF uid = 0 THEN "raised" ELSE "L129"
    /\ UNCHANGED <<envVars, clientVars, store, client1, client2, cmp1, fields1,
                   req_fields, server1_data, common_fields, filtered_data,
                   created_ids, idx, result, runs>>

\* lines 129-131, 154-157, 103-106: fields2, the comparison, the projection
\* and the entry of create_data_on_model
M_L129 ==
    /\ pc = "L129"
    /\ \E reply \in FieldsGetReplies(2) :
         /\ calls' = Append(calls, Call(2, "fields_get", cmp2, {}, EmptyRec, ~reply.fault, 0))
         /\ IF reraises(reply)
            THEN /\ pc' = "raised"
                 /\ UNCHANGED <<common_fields, filtered_data, idx, result, runs>>
            ELSE LET fields2 == get_filtered_fields(reply.val, NoneSet)
                     comparison_result == compare_field_lists(fields1, fields2)
                     common == comparison_result.common_fields
                     data == filter_data(server1_data, common)
                 IN /\ common_fields' = common
                    /\ filtered_data' = data
                    /\ IF create_returns_early(data)
                       THEN /\ pc' = "done"
                            /\ result' = early_return
                            /\ idx' = idx
                            /\ runs' = Append(runs, [src |-> server1_data,
                                                     data |-> data, ids |-> <<>>,
                                                     creates |-> 0])
                       ELSE /\ pc' = "L109"
                            /\ idx' = 1
                            /\ UNCHANGED <<result, runs>>
    /\ UNCHANGED <<envVars, clientVars, store, client1, client2, cmp1, cmp2,
                   fields1, req_fields, server1_data, created_ids>>

\* lines 107-114: one iteration of the loop of create_data_on_model
M_L109 ==
    /\ pc = "L109"
    /\ \E reply \in CreateReplies(2) :
         LET ids == on_create_reply(created_ids, reply)
             to == after_create(idx, Len(filtered_data), reply)
         IN /\ calls' = Append(calls, Call(2, "create", client2, {},
                                           filtered_data[idx], ~reply.fault,
                                           IF reply.fault THEN 0 ELSE reply.val))
            /\ store' = Created(2, filtered_data[idx], reply)
            /\ created_ids' = ids
            /\ idx' = idx + 1
            /\ pc' = to
            /\ IF to = "done"
               THEN /\ result' = SomeSeq(ids)
                    /\ runs' = Append(runs, [src |-> server1_data,
                                             data |-> filtered_data, ids |-> ids,
                                             creates |-> idx])
               ELSE UNCHANGED <<result, runs>>
    /\ UNCHANGED <<envVars, clientVars, client1, client2, cmp1, cmp2, fields1,
                   req_fields, server1_data, common_fields, filtered_data>>

\* the source holds n records with every field of its schema set, no two
\* values alike
FieldNo(f) == CASE f = "name" -> 1 [] f = "color" -> 2 [] OTHER -> 3
SourceRecords(sch, n) == [i \in 1..n |-> [f \in DOMAIN sch |-> 10 * i + FieldNo(f)]]

FieldsArgs == {NoneSet} \cup {SomeSet(x) : x \in SUBSET MigFieldNames}
DomainArgs == {NoneSeq, SomeSeq(<< <<"name", 21>> >>)}

\* the (fields, domain) arguments the caller passes: every fields list
\* without a domain, and the default fields with a domain
MigrateArgs ==
    {<<f, NoneSeq>> : f \in FieldsArgs} \cup {<<NoneSet, d>> : d \in DomainArgs}

Init ==
    /\ schema \in [Servers -> MigSchemas]
    /\ \E n \in 0..MaxRecords :
         store = [s \in Servers |->
                    IF s = 1 THEN SourceRecords(schema[1], n) ELSE <<>>]
    /\ \E a \in MigrateArgs : fields = a[1] /\ domain = a[2]
    /\ budget = 1
    /\ pc = "idle"
    /\ Locals0
    /\ runs = <<>>
    /\ self_uid = 0 /\ ret = NoCall /\ all_fields = NoneSet /\ cmp = NoCmp

Next ==
    \/ M_Call \/ M_Return
    \/ M_L148 \/ M_L58 \/ M_L60 \/ M_L151
    \/ M_L125 \/ M_L126 \/ M_L128 \/ M_L129
    \/ M_L109

Spec == Init /\ [][Next]_vars

\* the caller repeats the migration with the same arguments
RepeatSchemas == {SchemaA, SchemaB} \cup Schemas({"name"})
RepeatInit ==
    /\ schema \in [Servers -> RepeatSchemas]
    /\ \E n \in 0..MaxRecords :
         store = [s \in Servers |->
                    IF s = 1 THEN SourceRecords(schema[1], n) ELSE <<>>]
    /\ \E a \in MigrateArgs : fields = a[1] /\ domain = a[2]
    /\ budget = MaxRuns
    /\ pc = "idle"
    /\ Locals0
    /\ runs = <<>>
    /\ self_uid = 0 /\ ret = NoCall /\ all_fields = NoneSet /\ cmp = NoCmp

RepeatSpec == RepeatInit /\ [][Next]_vars

\* ----------------------------------------------- one client, its methods
\* mutant: authenticate stores what the server answered
uid_stored_by_authenticate(uid, reply) == IF reply.fault THEN uid ELSE reply.val

\* authenticate (lines 21-30) assigns nothing: self.uid after the call
uid_after_authenticate(uid, reply) == uid

\* lines 106-114 run to the end: the ids collected, the calls made and the
\* records stored, with faults[i] telling whether the i-th call raises
RECURSIVE create_loop(_, _, _, _, _, _, _)
create_loop(uid, data, faults, i, ids, log, recs) ==
    LET reply == IF faults[i] THEN Fault(0)
                 ELSE Reply(Len(store[1]) + Len(recs) + 1)
        ids2 == on_create_reply(ids, reply)
        log2 == Append(log, Call(1, "create", uid, {}, data[i], ~reply.fault,
                                 IF reply.fault THEN 0 ELSE reply.val))
        recs2 == IF reply.fault THEN recs ELSE Append(recs, data[i])
        to == after_create(i, Len(data), reply)
    IN IF to = "L109"
       THEN create_loop(uid, data, faults, i + 1, ids2, log2, recs2)
       ELSE [raised |-> to = "raised", ids |-> SomeSeq(ids2), log |-> log2,
             recs |-> recs2]

\* create_data_on_model (lines 103-114)
create_data_on_model(uid, data, faults) ==
    IF create_returns_early(data)
    THEN [raised |-> FALSE, ids |-> early_return, log |-> <<>>, recs |-> <<>>]
    ELSE create_loop(uid, data, faults, 1, <<>>, <<>>, <<>>)

\* client = OdooClient(url, db, username, password)
C_Init ==
    /\ pc = "client" /\ self_uid = 0
    /\ \E reply \in AuthReplies(1) :
         LET uid == OdooClient(reply) IN
         /\ self_uid' = uid
         /\ ret' = Ret("__init__", uid = 0, NoneSet, {}, <<>>, reply.val)
         /\ calls' = <<Call(1, "authenticate", 0, {}, EmptyRec, uid # 0, 0)>>
    /\ UNCHANGED <<envVars, migVars, store, all_fields, cmp>>

\* client.authenticate()
C_Authenticate ==
    /\ pc = "client" /\ self_uid # 0
    /\ \E reply \in AuthReplies(1) :
         LET uid == authenticate(reply) IN
         /\ self_uid' = uid_after_authenticate(self_uid, reply)
         /\ ret' = Ret("authenticate", uid = 0, NoneSet, {}, <<>>, uid)
         /\ calls' = <<Call(1, "authenticate", 0, {}, EmptyRec, uid # 0, 0)>>
    /\ UNCHANGED <<envVars, migVars, store, all_fields, cmp>>

ExcludeArgs == {NoneSet} \cup {SomeSet(x) : x \in SUBSET FieldTypes}

\* client.get_filtered_fields(model, exclude_types)
C_GetFilteredFields ==
    /\ pc = "client" /\ self_uid # 0
    /\ \E exclude_types \in ExcludeArgs : \E reply \in FieldsGetReplies(1) :
         /\ calls' = <<Call(1, "fields_get", self_uid, {}, EmptyRec, ~reply.fault, 0)>>
         /\ ret' = IF reraises(reply)
                   THEN Ret("get_filtered_fields", TRUE, exclude_types, {}, <<>>, 0)
                   ELSE Ret("get_filtered_fields", FALSE, exclude_types,
                            get_filtered_fields(reply.val, exclude_types), <<>>, 0)
    /\ UNCHANGED <<envVars, migVars, store, self_uid, all_fields, cmp>>

\* client.get_fields_from_model(model)
C_GetFieldsFromModel ==
    /\ pc = "client" /\ self_uid # 0
    /\ \E reply \in FieldsGetReplies(1) :
         /\ calls' = <<Call(1, "fields_get", self_uid, {}, EmptyRec, ~reply.fault, 0)>>
         /\ IF reraises(reply)
            THEN /\ ret' = Ret("get_fields_from_model", TRUE, NoneSet, {}, <<>>, 0)
                 /\ UNCHANGED all_fields
            ELSE /\ ret' = Ret("get_fields_from_model", FALSE, NoneSet,
                               get_fields_from_model(reply.val), <<>>, 0)
                 /\ all_fields' = SomeSet(get_fields_from_model(reply.val))
    /\ UNCHANGED <<envVars, migVars, store, self_uid, cmp>>

\* client.get_data_from_model(model, fields, domain)
C_GetDataFromModel ==
    /\ pc = "client" /\ self_uid # 0
    /\ \E flds \in FieldsArgs : \E dom \in DomainArgs :
         IF fields_is_falsy(flds)
         THEN \E r1 \in FieldsGetReplies(1) :
                LET c1 == Call(1, "fields_get", self_uid, {}, EmptyRec, ~r1.fault, 0) IN
                IF reraises(r1)
                THEN /\ calls' = <<c1>>
                     /\ ret' = Ret("get_data_from_model", TRUE, flds, {}, <<>>, 0)
                ELSE LET f == get_filtered_fields(r1.val, NoneSet) IN
                     \E r2 \in SearchReadReplies(1, domain_or_default(dom), f) :
                       /\ calls' = <<c1, Call(1, "search_read", self_uid, f,
                                              EmptyRec, ~r2.fault, 0)>>
                       /\ ret' = Ret("get_data_from_model", reraises(r2), flds, f,
                                     IF reraises(r2) THEN <<>> ELSE r2.val, 0)
         ELSE \E r2 \in SearchReadReplies(1, domain_or_default(dom), flds.val) :
                /\ calls' = <<Call(1, "search_read", self_uid, flds.val, EmptyRec,
                                   ~r2.fault, 0)>>
                /\ ret' = Ret("get_data_from_model", reraises(r2), flds, flds.val,
                              IF reraises(r2) THEN <<>> ELSE r2.val, 0)
    /\ UNCHANGED <<envVars, migVars, store, self_uid, all_fields, cmp>>

\* client.compare_field_lists(fields_list_1, fields_list_2)
C_CompareFieldLists ==
    /\ pc = "client" /\ self_uid # 0
    /\ \E l1 \in SUBSET MigFieldNames : \E l2 \in SUBSET MigFieldNames :
         /\ ret' = Ret("compare_field_lists", FALSE, SomeSet(l1),
                       compare_field_lists(l1, l2).common_fields, <<>>, 0)
         /\ calls' = <<>>
    /\ UNCHANGED <<envVars, migVars, store, self_uid, all_fields, cmp>>

\* client.create_data_on_model(model, data)
C_CreateDataOnModel ==
    /\ pc = "client" /\ self_uid # 0
    /\ \E n \in 0..(MaxRecords - Len(store[1])) : \E faults \in [1..n -> BOOLEAN] :
         LET data == SourceRecords(schema[1], n)
             out == create_data_on_model(self_uid, data, faults)
         IN /\ calls' = out.log
            /\ store' = [store EXCEPT ![1] = @ \o out.recs]
            /\ ret' = Ret("create_data_on_model", out.raised, NoneSet, {},
                          out.ids.val, n)
    /\ UNCHANGED <<envVars, migVars, self_uid, all_fields, cmp>>

ClientInit ==
    /\ \E sch \in MigSchemas : \E n \in 0..MaxRecords :
         /\ schema = [s \in Servers |-> IF s = 1 THEN sch ELSE EmptyRec]
         /\ store = [s \in Servers |-> IF s = 1 THEN SourceRecords(sch, n) ELSE <<>>]
    /\ fields = NoneSet /\ domain = NoneSeq /\ budget = 0
    /\ pc = "client"
    /\ Locals0
    /\ runs = <<>>
    /\ self_uid = 0 /\ ret = NoCall /\ all_fields = NoneSet /\ cmp = NoCmp

ClientNext ==
    \/ C_Init \/ C_Authenticate
    \/ C_GetFilteredFields \/ C_GetFieldsFromModel \/ C_GetDataFromModel
    \/ C_CompareFieldLists \/ C_CreateDataOnModel

ClientSpec == ClientInit /\ [][ClientNext]_vars

\* the two field listings of one client, over every schema
FieldsInit ==
    /\ \E sch \in Schemas(FieldNames) :
         schema = [s \in Servers |-> IF s = 1 THEN sch ELSE EmptyRec]
    /\ store = [s \in Servers |-> <<>>]
    /\ fields = NoneSet /\ domain = NoneSeq /\ budget = 0
    /\ pc = "client"
    /\ Locals0
    /\ runs = <<>>
    /\ self_uid = 0 /\ ret = NoCall /\ all_fields = NoneSet /\ cmp = NoCmp

FieldsNext == C_Init \/ C_GetFilteredFields \/ C_GetFieldsFromModel

FieldsSpec == FieldsInit /\ [][FieldsNext]_vars

\* --------------------------------------- compare_models_between_servers
\* lines 124-134, for servers a and b: the four replies decide the outcome
compare_models_between_servers(ra1, rf1, ra2, rf2) ==
    IF OdooClient(ra1) = 0 \/ reraises(rf1) \/ OdooClient(ra2) = 0 \/ reraises(rf2)
    THEN [state |-> "raised", val |-> compare_field_lists({}, {})]
    ELSE [state |-> "ok",
          val |-> compare_field_lists(get_filtered_fields(rf1.val, NoneSet),
                                      get_filtered_fields(rf2.val, NoneSet))]

\* compare_models_between_servers(server_a, server_b, model)
CompareModels ==
    /\ pc = "compare"
    /\ \E p \in Pairs :
         /\ cmp[p].state = "none"
         /\ \E ra1 \in AuthReplies(p[1]) : \E rf1 \in FieldsGetReplies(p[1]) :
            \E ra2 \in AuthReplies(p[2]) : \E rf2 \in FieldsGetReplies(p[2]) :
              cmp' = [cmp EXCEPT ![p] = compare_models_between_servers(ra1, rf1, ra2, rf2)]
    /\ UNCHANGED <<envVars, migVars, store, calls, self_uid, ret, all_fields>>

CompareInit ==
    /\ schema \in [Servers -> Schemas(FieldNames)]
    /\ store = [s \in Servers |-> <<>>]
    /\ fields = NoneSet /\ domain = NoneSeq /\ budget = 0
    /\ pc = "compare"
    /\ Locals0
    /\ runs = <<>>
    /\ self_uid = 0 /\ ret = NoCall /\ all_fields = NoneSet /\ cmp = NoCmp

CompareNext == CompareModels

CompareSpec == CompareInit /\ [][CompareNext]_vars

\* ------------------------------------------------- properties, migration
RelationalTypes == {"many2many", "one2many", "many2one"}
Relational(s) == {k \in DOMAIN schema[s] : schema[s][k] \in RelationalTypes}

IsCreate(c) == c.method = "create"
CreateCalls == SelectSeq(calls, IsCreate)
IsCreated(c) == c.method = "create" /\ c.ok
NoCreateYet == \A i \in 1..Len(calls) : ~IsCreate(calls[i])
FatalAt(i) == ~calls[i].ok /\ ~IsCreate(calls[i])

RECURSIVE TotalIds(_)
TotalIds(rs) == IF rs = <<>> THEN 0 ELSE Len(Head(rs).ids) + TotalIds(Tail(rs))

\* C1: per-record isolation. The create calls issued so far are the input
\* records in input order, one per record, a failed call never ends the loop
\* or raises, and the identifiers collected (and, at the end, returned) are
\* exactly those of the calls that went through, in input order.
C1_PerRecordIsolation ==
    LET cc == CreateCalls
        okc == SelectSeq(calls, IsCreated)
    IN /\ cc # <<>> => pc \in {"L109", "done"}
       /\ pc \in {"L109", "done"} =>
            /\ Len(cc) <= Len(filtered_data)
            /\ \A k \in 1..Len(cc) : cc[k].rec = filtered_data[k]
            /\ created_ids = [k \in 1..Len(okc) |-> okc[k].id]
            /\ pc = "L109" => idx = Len(cc) + 1
       /\ pc = "done" =>
            /\ Len(cc) = Len(filtered_data)
            /\ result = SomeSeq(created_ids)
            /\ Len(result.val) = Len(okc)

\* a first create call failed, the second went through and is returned
C1_Witness ==
    /\ pc = "done"
    /\ Len(CreateCalls) = 2
    /\ ~CreateCalls[1].ok /\ CreateCalls[2].ok
    /\ result = SomeSeq(<<CreateCalls[2].id>>)

\* C2: the record sent in the k-th create call is the k-th source record
\* restricted to the common fields: its keys are the record's keys that are
\* common fields, each with the record's value.
C2_Projection ==
    LET cc == CreateCalls
        C == compare_field_lists(get_filtered_fields(schema[1], NoneSet),
                                 get_filtered_fields(schema[2], NoneSet)).common_fields
    IN \A k \in 1..Len(cc) :
         /\ k <= Len(server1_data)
         /\ common_fields = C
         /\ DOMAIN cc[k].rec = DOMAIN server1_data[k] \cap C
         /\ \A f \in DOMAIN cc[k].rec : cc[k].rec[f] = server1_data[k][f]

\* a record with a key that is kept, a key that is dropped and a common
\* field it does not have
C2_Witness ==
    \E k \in 1..Len(CreateCalls) :
         /\ CreateCalls[k].rec # EmptyRec
         /\ DOMAIN server1_data[k] \ common_fields # {}
         /\ common_fields \ DOMAIN server1_data[k] # {}

\* C3: a failed authenticate, search_read or fields_get call makes the
\* migration raise at that call: nothing is returned, no create call was
\* issued and the destination holds what the earlier migrations stored.
\* The migration raises for no other reason.
C3_FatalBeforeWrite ==
    /\ (\E i \in 1..Len(calls) : FatalAt(i)) =>
          /\ pc = "raised"
          /\ FatalAt(Len(calls))
          /\ result.none
          /\ NoCreateYet
          /\ Len(store[2]) = TotalIds(runs)
    /\ pc = "raised" => calls # <<>> /\ FatalAt(Len(calls))

\* the last call before any write fails, after records were read
C3_Witness ==
    /\ pc = "raised"
    /\ Len(server1_data) > 0
    /\ calls[Len(calls)].method = "fields_get" /\ calls[Len(calls)].srv = 2
    /\ store[2] # <<>>

\* C5: the default field list holds no relational field; without a fields
\* argument the list sent in search_read holds none; and no record sent in
\* a create call has a key that is relational on either server.
C5_NoRelational ==
    /\ \A s \in Servers : get_filtered_fields(schema[s], NoneSet) \cap Relational(s) = {}
    /\ pc \in {"L128", "L129", "L109", "done"} => fields1 \cap Relational(1) = {}
    /\ \A i \in 1..Len(calls) :
         /\ (calls[i].method = "search_read" /\ fields.none) =>
               calls[i].fields \cap Relational(1) = {}
         /\ IsCreate(calls[i]) =>
               DOMAIN calls[i].rec \cap (Relational(1) \cup Relational(2)) = {}

\* the caller asked for a relational field, it was read and not written
C5_Witness ==
    /\ ~fields.none
    /\ \E k \in 1..Len(CreateCalls) :
         /\ CreateCalls[k].rec # EmptyRec
         /\ DOMAIN server1_data[k] \cap Relational(1) # {}

\* C7: with no source record the migration returns the empty list and
\* issues no create call; create_data_on_model with empty data returns the
\* empty list and makes no remote call.
C7_EmptySource ==
    /\ (pc = "done" /\ server1_data = <<>>) =>
          /\ result = SomeSeq(<<>>)
          /\ NoCreateYet
          /\ Len(store[2]) = TotalIds(runs)
    /\ (pc = "done" /\ filtered_data = <<>>) =>
          /\ result = SomeSeq(<<>>)
          /\ calls[Len(calls)].method = "fields_get"
    /\ pc = "L109" => filtered_data # <<>>

\* the source holds a record, none matches the domain
C7_Witness ==
    /\ pc = "done" /\ server1_data = <<>> /\ store[1] # <<>>

\* C8: two migrations that returned with every create call succeeding each
\* issued one create call per source record, over the same source records;
\* their identifiers are distinct and each names a stored copy of the
\* projected record, so after two such migrations (and while no third one
\* is writing) the destination holds 2n records.
AllCreated(r) == Len(r.ids) = Len(r.data)
C8_NotIdempotent ==
    /\ \A i \in 1..Len(runs) : \A j \in 1..Len(runs) :
         (i < j /\ AllCreated(runs[i]) /\ AllCreated(runs[j])) =>
            /\ runs[i].src = runs[j].src
            /\ runs[i].data = runs[j].data
            /\ runs[i].creates = Len(runs[i].src)
            /\ runs[j].creates = Len(runs[j].src)
            /\ \A k \in 1..Len(runs[i].ids) : \A l \in 1..Len(runs[j].ids) :
                 runs[i].ids[k] # runs[j].ids[l]
            /\ \A k \in 1..Len(runs[i].ids) :
                 /\ store[2][runs[i].ids[k]] = runs[i].data[k]
                 /\ store[2][runs[j].ids[k]] = runs[i].data[k]
    /\ (Len(runs) = 2 /\ AllCreated(runs[1]) /\ AllCreated(runs[2])
          /\ pc # "L109") =>
          Len(store[2]) = 2 * Len(runs[1].src)

\* two migrations of n >= 1 records, every create succeeding
C8_Witness ==
    /\ Len(runs) = 2 /\ AllCreated(runs[1]) /\ AllCreated(runs[2])
    /\ Len(runs[1].src) = MaxRecords
    /\ runs[1].data[1] # EmptyRec
    /\ Len(store[2]) = 2 * MaxRecords

\* C10: before the first create call the calls are, in this order and all
\* successful: authenticate on the source, (fields_get on the source when
\* no fields were given,) search_read on the source, authenticate on the
\* destination, then the comparator's authenticate and fields_get on the
\* source and authenticate and fields_get on the destination; every later
\* call is a create on the destination; and a migration that returns has
\* issued one create call per record read, the k-th for the k-th record.
Sig(c) == <<c.srv, c.method>>
Prefix ==
    (<< <<1, "authenticate">> >>
     \o (IF fields_is_falsy(fields) THEN << <<1, "fields_get">> >> ELSE <<>>))
    \o << <<1, "search_read">>, <<2, "authenticate">>, <<1, "authenticate">>,
          <<1, "fields_get">>, <<2, "authenticate">>, <<2, "fields_get">> >>
C10_CallOrder ==
    /\ ~NoCreateYet =>
          /\ Len(calls) > Len(Prefix)
          /\ \A i \in 1..Len(Prefix) : Sig(calls[i]) = Prefix[i] /\ calls[i].ok
          /\ \A i \in (Len(Prefix) + 1)..Len(calls) : Sig(calls[i]) = <<2, "create">>
    /\ pc = "done" =>
          /\ Len(CreateCalls) = Len(server1_data)
          /\ \A k \in 1..Len(CreateCalls) :
               DOMAIN CreateCalls[k].rec \subseteq DOMAIN server1_data[k]
               /\ \A f \in DOMAIN CreateCalls[k].rec :
                    CreateCalls[k].rec[f] = server1_data[k][f]

\* a record with an empty projection is still sent
C10_Witness ==
    /\ pc = "done" /\ fields.none
    /\ Len(CreateCalls) = MaxRecords
    /\ CreateCalls[1].rec = EmptyRec
    /\ server1_data[1] # EmptyRec

\* ------------------------------------------ properties, client and fields
\* C4: the names get_filtered_fields returns for an exclusion set and the
\* names of the fields whose type is in that set (the default set when none
\* is given) are disjoint and together are the names get_fields_from_model
\* returns.
ExcludedBy(arg) == IF arg.none THEN RelationalTypes ELSE arg.val
C4_Partition ==
    (ret.method = "get_filtered_fields" /\ ~ret.raised /\ ~all_fields.none) =>
       LET excluded == {k \in DOMAIN schema[1] : schema[1][k] \in ExcludedBy(ret.arg)}
       IN /\ ret.set \cup excluded = all_fields.val
          /\ ret.set \cap excluded = {}

\* the same for the default and every non-empty exclusion set
C4_PartitionNonEmpty ==
    (ret.method = "get_filtered_fields" /\ ~ret.raised /\ ~all_fields.none
       /\ (ret.arg.none \/ ret.arg.val # {})) =>
       LET excluded == {k \in DOMAIN schema[1] : schema[1][k] \in ExcludedBy(ret.arg)}
       IN /\ ret.set \cup excluded = all_fields.val
          /\ ret.set \cap excluded = {}

\* C9: construction gives a client exactly when authenticate answered a
\* truthy uid, which the client then holds; every fields_get, search_read
\* and create call carries that uid; and once a client holds a uid no
\* method call changes it.
C9_Authenticated ==
    /\ ret.method = "__init__" =>
          /\ ret.raised <=> ret.n = 0
          /\ self_uid = ret.n
    /\ \A i \in 1..Len(calls) :
          calls[i].method # "authenticate" => calls[i].uid # 0 /\ calls[i].uid = self_uid
C9_ClientIdentity ==
    /\ []C9_Authenticated
    /\ [][self_uid # 0 => self_uid' = self_uid]_vars

\* a further authenticate() is refused and the client keeps its uid
C9_Witness ==
    /\ ret.method = "authenticate" /\ ret.raised /\ self_uid # 0

\* --------------------------------------------- properties, comparator
\* C6: the common fields do not depend on the order of the servers; the
\* three sets of a comparison are pairwise disjoint; and the comparison is
\* over the non-relational fields of each server, so a field relational on
\* a server is neither unique to it nor common.
NonRelational(s) == DOMAIN schema[s] \ Relational(s)
C6_SetAlgebra ==
    /\ (cmp[<<1, 2>>].state = "ok" /\ cmp[<<2, 1>>].state = "ok") =>
          cmp[<<1, 2>>].val.common_fields = cmp[<<2, 1>>].val.common_fields
    /\ \A p \in Pairs : cmp[p].state = "ok" =>
          LET r == cmp[p].val IN
          /\ r.unique_to_list_1 \cap r.common_fields = {}
          /\ r.unique_to_list_2 \cap r.common_fields = {}
          /\ r.unique_to_list_1 \cap r.unique_to_list_2 = {}
          /\ r.unique_to_list_1 \cup r.common_fields = NonRelational(p[1])
          /\ r.unique_to_list_2 \cup r.common_fields = NonRelational(p[2])
          /\ r.unique_to_list_1 \cap Relational(p[1]) = {}
          /\ r.unique_to_list_2 \cap Relational(p[2]) = {}
          /\ r.common_fields \cap (Relational(1) \cup Relational(2)) = {}

\* both orders compared; a common field, a field unique to each server and
\* a relational field left out
C6_Witness ==
    /\ cmp[<<1, 2>>].state = "ok" /\ cmp[<<2, 1>>].state = "ok"
    /\ cmp[<<1, 2>>].val.common_fields = {"name"}
    /\ cmp[<<1, 2>>].val.unique_to_list_1 = {"color"}
    /\ cmp[<<1, 2>>].val.unique_to_list_2 = {"partner_id"}
    /\ Relational(1) = {"partner_id"}

====
